---- MODULE Spec2Model ----
(***************************************************************************)
(* ECHONET Lite frame codec of wisun-gateway (class EchonetData).          *)
(*                                                                         *)
(* Buffers are sequences of bytes (0..255), hexadecimal strings are        *)
(* sequences of hexadecimal digits (0..15), bigints are integers.  An      *)
(* optional value is a sequence of length 0 (absent) or 1 (present).       *)
(* A call's outcome is a record [err, ...]; err = "none" is a normal       *)
(* return, anything else names the exception thrown.                       *)
(***************************************************************************)
EXTENDS Integers, Sequences, FiniteSets, TLC

VARIABLES
    data,        \* the EchonetData in hand: <<>> or <<d>>
    made,        \* how data was obtained: "none", "create", "parse", "assigned"
    parsedFrom,  \* the buffer data was parsed from (<<>> unless made = "parse")
    buffer,      \* the byte buffer in hand
    whole,       \* the complete buffer that `buffer` is a prefix of
    origin,      \* where `whole` came from: "none", "wire", or the `made` of the serialized data
    serialized,  \* the EchonetData `whole` was serialized from: <<>> or <<d>>
    op,          \* the last operation called
    arg,         \* its argument: <<>> or <<a>>
    err,         \* its outcome: "none" or the error thrown
    ret,         \* the number returned by the last accessor call
    valid        \* the boolean returned by the last isValidResponse call

vars == <<data, made, parsedFrom, buffer, whole, origin, serialized, op, arg, err, ret, valid>>

\* ---------------------------------------------------------------- bounds

\* Longest property list handed to create.
MaxProps == 2

\* ------------------------------------------------------------- constants

\* 0x1081, the fixed ECHONET Lite header (EHD1, EHD2).
Header == 4225
\* The length of the fixed part of a frame: header .. OPC.
MinFrameLength == 12
\* The widest PDC getEdt converts to a number.
MaxNumberPdc == 6
\* 0xffff, the factor Math.random() is scaled by.
RandomScale == 65535

\* ------------------------------------------------------- helper operators

Min(S) == CHOOSE x \in S : \A y \in S : x <= y

RECURSIVE Pow(_, _)
Pow(b, n) == IF n = 0 THEN 1 ELSE b * Pow(b, n - 1)

\* ToUint8 of an integer: how Buffer.from([x]) stores x.
Uint8(x) == x % 256

\* Buffer.alloc(n): n zero bytes.
alloc(n) == [i \in 1..n |-> 0]

\* bigint.toString(16) of a non-negative bigint: its hexadecimal digits,
\* most significant first, no leading zero ("0" for 0).
RECURSIVE toString16(_)
toString16(v) == IF v < 16 THEN <<v>> ELSE Append(toString16(v \div 16), v % 16)

\* Mutant of padStart: pads on the right, as padEnd does.
padEnd(s, n) == IF Len(s) >= n THEN s ELSE s \o [i \in 1..(n - Len(s)) |-> 0]

\* String.prototype.padStart(n, "0"): pads on the left, never shortens.
padStart(s, n) == IF Len(s) >= n THEN s ELSE [i \in 1..(n - Len(s)) |-> 0] \o s

\* Buffer.from(hex, "hex"): one byte per complete pair of digits; a trailing
\* single digit is dropped.
BufferFromHex(s) == [i \in 1..(Len(s) \div 2) |-> s[2 * i - 1] * 16 + s[2 * i]]

\* source.copy(target): the leading bytes of source that fit overwrite the
\* start of target.
copy(source, target) ==
    [i \in 1..Len(target) |-> IF i <= Len(source) THEN source[i] ELSE target[i]]

\* buf.toString("hex"): two digits per byte.
toStringHex(b) ==
    [i \in 1..(2 * Len(b)) |->
        IF i % 2 = 1 THEN b[(i + 1) \div 2] \div 16 ELSE b[i \div 2] % 16]

\* BigInt("0x" + digits).
RECURSIVE BigIntFromHex(_)
BigIntFromHex(s) ==
    IF Len(s) = 0 THEN 0
    ELSE BigIntFromHex(SubSeq(s, 1, Len(s) - 1)) * 16 + s[Len(s)]

\* frame.subarray(from, to), offsets counted from 0, `to` excluded.
subarray(b, from, to) == SubSeq(b, from + 1, to)

\* buf.readUIntBE(offset, byteLength) / readUInt16BE / readUInt8, offset from 0.
RECURSIVE readUIntBE(_, _, _)
readUIntBE(b, offset, byteLength) ==
    IF byteLength = 0 THEN 0
    ELSE readUIntBE(b, offset, byteLength - 1) * 256 + b[offset + byteLength]

\* buf.writeUIntBE(value, 0, byteLength) / writeUInt16BE on a fresh buffer:
\* the range check, and the bytes written when it passes.
InUIntRange(value, byteLength) == 0 <= value /\ value < Pow(256, byteLength)

RECURSIVE writeUIntBE(_, _)
writeUIntBE(value, byteLength) ==
    IF byteLength = 0 THEN <<>>
    ELSE Append(writeUIntBE(value \div 256, byteLength - 1), value % 256)

\* ------------------------------------------------------------------ create

\* A JavaScript value handed in as a property's edt: type "undefined",
\* "number" (the rational num/den; den = 0 stands for NaN and the infinities)
\* or "bigint" (num, den = 1).
NumberIsInteger(edt) == edt.den > 0 /\ edt.num % edt.den = 0

\* Mutant of EdtError: the sign of a number is not checked.
EdtErrorNoSign(edt) ==
    IF edt.type = "number"
    THEN IF ~NumberIsInteger(edt) THEN "TypeError" ELSE "none"
    ELSE IF edt.type = "bigint"
         THEN IF edt.num < 0 THEN "RangeError" ELSE "none"
         ELSE "none"

\* The exception the property callback throws for edt, "none" if it returns:
\* a TypeError for a number that is not an integer or is negative, a
\* RangeError for a negative bigint.
EdtError(edt) ==
    IF edt.type = "number"
    THEN IF ~NumberIsInteger(edt) \/ edt.num < 0 THEN "TypeError" ELSE "none"
    ELSE IF edt.type = "bigint"
         THEN IF edt.num < 0 THEN "RangeError" ELSE "none"
         ELSE "none"

\* edtBigInt of a property callback that does not throw.
edtBigInt(edt) ==
    IF edt.type = "number" THEN edt.num \div edt.den
    ELSE IF edt.type = "bigint" THEN edt.num
    ELSE 0

\* Mutant of calculatedPdc: Math.floor in place of Math.ceil.
calculatedPdcFloor(v) == Len(toString16(v)) \div 2

\* Mutant of calculatedPdc: no byte for the value 0.
calculatedPdcZero(v) == IF v = 0 THEN 0 ELSE (Len(toString16(v)) + 1) \div 2

\* Math.ceil(edtBigInt.toString(16).length / 2).
calculatedPdc(v) == (Len(toString16(v)) + 1) \div 2

\* The callback of properties.map in create, for an input it accepts.
createProperty(p) ==
    [epc |-> p.epc, pdc |-> calculatedPdc(edtBigInt(p.edt)), edt |-> edtBigInt(p.edt)]

\* Math.floor(Math.random() * 0xffff) can return t exactly when some r in
\* [0, 1) has t <= r * 0xffff < t + 1.
RandomTidPossible(t) == 0 <= t /\ t < RandomScale

\* EchonetData.create(input) with randomTid the value drawn for this call.
\* map runs the callback in list order, so the first offending property
\* decides the exception.
create(input, randomTid) ==
    LET bad == {i \in DOMAIN input.properties : EdtError(input.properties[i].edt) # "none"}
    IN  IF bad # {}
        THEN [err |-> EdtError(input.properties[Min(bad)].edt), data |-> <<>>]
        ELSE [err |-> "none",
              data |-> << [tid  |-> IF input.tid = <<>> THEN randomTid ELSE input.tid[1],
                           seoj |-> input.seoj,
                           deoj |-> input.deoj,
                           esv  |-> input.esv,
                           properties |->
                               [i \in DOMAIN input.properties |->
                                   createProperty(input.properties[i])]] >>]

\* ------------------------------------------------------------------- parse

\* BigInt(`0x${frame.subarray(offset, offset + pdc).toString("hex")}`), or 0
\* for pdc = 0.
parseEdt(frame, offset, pdc) ==
    IF pdc > 0
    THEN BigIntFromHex(toStringHex(subarray(frame, offset, offset + pdc)))
    ELSE 0

\* The loop of parse from its i-th round on: offset counts bytes from 0.
RECURSIVE parseProperties(_, _, _, _, _)
parseProperties(frame, opc, i, offset, properties) ==
    IF ~(i < opc)
    THEN [err |-> "none", properties |-> properties, offset |-> offset]
    ELSE IF Len(frame) < offset + 2
    THEN [err |-> "EPC or PDC is missing", properties |-> <<>>, offset |-> offset]
    ELSE LET epc == readUIntBE(frame, offset, 1)
             pdc == readUIntBE(frame, offset + 1, 1)
         IN  IF Len(frame) < offset + 2 + pdc
             THEN [err |-> "EDT is incomplete", properties |-> <<>>, offset |-> offset + 2]
             ELSE parseProperties(frame, opc, i + 1, offset + 2 + pdc,
                      Append(properties,
                          [epc |-> epc, pdc |-> pdc, edt |-> parseEdt(frame, offset + 2, pdc)]))

\* EchonetData.parse(frame).  readUInt16BE(0) runs before either check and
\* throws Node's ERR_BUFFER_OUT_OF_BOUNDS on a buffer shorter than 2 bytes.
\* `end` is the offset reached after the last property.
parse(frame) ==
    IF Len(frame) < 2
    THEN [err |-> "ERR_BUFFER_OUT_OF_BOUNDS", data |-> <<>>, end |-> 0]
    ELSE IF readUIntBE(frame, 0, 2) # Header
    THEN [err |-> "Invalid header", data |-> <<>>, end |-> 0]
    ELSE IF Len(frame) < MinFrameLength
    THEN [err |-> "Frame is too short", data |-> <<>>, end |-> 0]
    ELSE LET r == parseProperties(frame, readUIntBE(frame, 11, 1), 0, MinFrameLength, <<>>)
         IN  IF r.err # "none"
             THEN [err |-> r.err, data |-> <<>>, end |-> r.offset]
             ELSE [err |-> "none",
                   data |-> << [tid  |-> readUIntBE(frame, 2, 2),
                                seoj |-> readUIntBE(frame, 4, 3),
                                deoj |-> readUIntBE(frame, 7, 3),
                                esv  |-> readUIntBE(frame, 10, 1),
                                properties |-> r.properties] >>,
                   end |-> r.offset]

\* --------------------------------------------------------------- accessors

\* Mutant of find: the last match.
findLast(d, epc) ==
    LET hits == {i \in DOMAIN d.properties : d.properties[i].epc = epc}
    IN  IF hits = {} THEN <<>> ELSE << d.properties[CHOOSE i \in hits : \A j \in hits : j <= i] >>

\* this.properties.find(p => p.epc === epc): <<>> or <<first match>>.
find(d, epc) ==
    LET hits == {i \in DOMAIN d.properties : d.properties[i].epc = epc}
    IN  IF hits = {} THEN <<>> ELSE << d.properties[Min(hits)] >>

\* d.getEdt(epc); Number(edt) is exact for the at most 6 bytes let through.
getEdt(d, epc) ==
    LET property == find(d, epc)
    IN  IF property = <<>> THEN [err |-> "Property not found", ret |-> 0]
        ELSE IF property[1].pdc > MaxNumberPdc
        THEN [err |-> "Cannot convert to number type", ret |-> 0]
        ELSE [err |-> "none", ret |-> property[1].edt]

\* d.getEdtAsBigInt(epc).
getEdtAsBigInt(d, epc) ==
    LET property == find(d, epc)
    IN  IF property = <<>> THEN [err |-> "Property not found", ret |-> 0]
        ELSE [err |-> "none", ret |-> property[1].edt]

\* ---------------------------------------------------------- isValidResponse

\* Mutant of isValidResponse: the transaction id is not compared.
isValidResponseNoTid(d, response) ==
    d.deoj = response.seoj /\ d.seoj = response.deoj

\* d.isValidResponse(response).
isValidResponse(d, response) ==
    d.deoj = response.seoj /\ d.seoj = response.deoj /\ d.tid = response.tid

\* ---------------------------------------------------------------- toBuffer

\* edt.toString(16).padStart(pdc * 2, "0").
edtHex(pdc, edt) == padStart(toString16(edt), pdc * 2)

\* Mutant of edtBuffer: the last pdc bytes of the decoded edtHex are kept.
edtBufferLowBytes(pdc, edt) ==
    IF pdc > 0
    THEN LET source == BufferFromHex(edtHex(pdc, edt))
         IN  SubSeq(source, Len(source) - pdc + 1, Len(source))
    ELSE alloc(0)

\* Mutant of edtBuffer: one zero byte for pdc = 0.
edtBufferZeroByte(pdc, edt) ==
    IF pdc > 0 THEN copy(BufferFromHex(edtHex(pdc, edt)), alloc(pdc)) ELSE alloc(1)

\* The value bytes of one property: Buffer.alloc(pdc) overwritten from its
\* start with the decoded edtHex; empty for pdc = 0.
edtBuffer(pdc, edt) ==
    IF pdc > 0 THEN copy(BufferFromHex(edtHex(pdc, edt)), alloc(pdc)) ELSE alloc(0)

\* Buffer.concat([Buffer.from([epc]), Buffer.from([pdc]), edtBuffer]).
propertyBuffer(p) == <<Uint8(p.epc), Uint8(p.pdc)>> \o edtBuffer(p.pdc, p.edt)

\* Buffer.concat(this.properties.map(...)).
RECURSIVE propertyData(_)
propertyData(properties) ==
    IF Len(properties) = 0 THEN <<>>
    ELSE propertyBuffer(properties[1]) \o propertyData(Tail(properties))

\* d.toBuffer().  writeUInt16BE / writeUIntBE throw ERR_OUT_OF_RANGE on a
\* value outside their width; Buffer.from([x]) keeps x modulo 256.
toBuffer(d) ==
    IF ~InUIntRange(d.tid, 2) \/ ~InUIntRange(d.seoj, 3) \/ ~InUIntRange(d.deoj, 3)
    THEN [err |-> "ERR_OUT_OF_RANGE", buffer |-> <<>>]
    ELSE [err |-> "none",
          buffer |-> writeUIntBE(Header, 2)
                     \o writeUIntBE(d.tid, 2)
                     \o writeUIntBE(d.seoj, 3)
                     \o writeUIntBE(d.deoj, 3)
                     \o <<Uint8(d.esv)>>
                     \o <<Uint8(Len(d.properties))>>
                     \o propertyData(d.properties)]

\* ------------------------------------------------------------ sampled inputs

\* 0x05FF01 (controller) and 0x028801 (low-voltage smart meter).
ObjectSamples == {392961, 165889}

\* Candidate results of the random draw: 0, 0x1234, 0xFFFE, 0xFFFF.
TidProbes == {0, 4660, 65534, 65535}

\* The fixed fields handed to create: tid omitted, tid 0, tid 0x1234 with the
\* objects both ways round and equal, tid 0x10000 (wider than the 2 bytes of
\* the TID field), seoj 0x1000000 (wider than the 3 bytes of the SEOJ field),
\* esv 0x162 (wider than a byte, 0x62 otherwise).
FixedInputs ==
    { [tid |-> <<>>,      seoj |-> 392961, deoj |-> 165889, esv |-> 98],
      [tid |-> <<0>>,     seoj |-> 392961, deoj |-> 165889, esv |-> 98],
      [tid |-> <<4660>>,  seoj |-> 392961, deoj |-> 165889, esv |-> 98],
      [tid |-> <<4660>>,  seoj |-> 165889, deoj |-> 392961, esv |-> 98],
      [tid |-> <<4660>>,  seoj |-> 392961, deoj |-> 392961, esv |-> 98],
      [tid |-> <<65536>>, seoj |-> 392961, deoj |-> 165889, esv |-> 98],
      [tid |-> <<4660>>,  seoj |-> 16777216, deoj |-> 165889, esv |-> 98],
      [tid |-> <<4660>>,  seoj |-> 392961, deoj |-> 165889, esv |-> 354] }

Undefined == [type |-> "undefined", num |-> 0, den |-> 1]
Number(num, den) == [type |-> "number", num |-> num, den |-> den]
BigInt(num) == [type |-> "bigint", num |-> num, den |-> 1]

\* Property inputs of create: edt omitted, 255, 256, 0n, 0x12345n, -1, 1.5,
\* Infinity, -1n, and the code 0x1E7 (wider than a byte).
PropertyInputs ==
    { [epc |-> 231, edt |-> Undefined],
      [epc |-> 231, edt |-> Number(255, 1)],
      [epc |-> 128, edt |-> Number(256, 1)],
      [epc |-> 231, edt |-> BigInt(0)],
      [epc |-> 128, edt |-> BigInt(74565)],
      [epc |-> 231, edt |-> Number(-1, 1)],
      [epc |-> 128, edt |-> Number(3, 2)],
      [epc |-> 128, edt |-> Number(1, 0)],
      [epc |-> 128, edt |-> BigInt(-1)],
      [epc |-> 487, edt |-> Undefined] }

PropertyLists == UNION {[1..n -> PropertyInputs] : n \in 0..MaxProps}

CreateInputs ==
    { [tid |-> f.tid, seoj |-> f.seoj, deoj |-> f.deoj, esv |-> f.esv, properties |-> ps] :
        f \in FixedInputs, ps \in PropertyLists }

\* Property codes asked of the accessors: 0xE7, 0x80, 0xE0.
EpcSamples == {231, 128, 224}

\* PDC values a caller assigns to a property.
PdcSamples == {0, 1, 2}

\* Candidate responses handed to isValidResponse.
ResponseSamples ==
    { [tid |-> t, seoj |-> s, deoj |-> d, esv |-> e[1], properties |-> e[2]] :
        t \in {0, 4660}, s \in ObjectSamples, d \in ObjectSamples,
        e \in { <<98, <<>> >>, <<114, <<[epc |-> 231, pdc |-> 1, edt |-> 7]>> >> } }

\* 10 81 tid(2) seoj(3) deoj(3) esv opc.
FixedPart(tid, opc) == <<16, 129, 0, tid, 5, 255, 1, 2, 136, 1, 98, opc>>

\* Buffers arriving from the transport.
WireSamples ==
    { \* the frame 10 81 00 01 05 FF 01 02 88 01 62 01 E7 00
      FixedPart(1, 1) \o <<231, 0>>,
      \* the same followed by one more byte
      FixedPart(1, 1) \o <<231, 0, 0>>,
      \* two properties, E7 = 0x1234 and 80 = 0xFF
      FixedPart(2, 2) \o <<231, 2, 18, 52, 128, 1, 255>>,
      \* one property of 7 bytes with leading zeros
      FixedPart(3, 1) \o <<224, 7, 0, 0, 0, 0, 0, 1, 2>>,
      \* the code E7 twice
      FixedPart(4, 2) \o <<231, 1, 1, 231, 1, 2>>,
      \* no property
      FixedPart(5, 0),
      \* a header other than 10 81
      <<16, 130, 0, 1, 5, 255, 1, 2, 136, 1, 98, 0>> }

\* -------------------------------------------------------------------- state

Init ==
    /\ data = <<>>
    /\ made = "none"
    /\ parsedFrom = <<>>
    /\ buffer = <<>>
    /\ whole = <<>>
    /\ origin = "none"
    /\ serialized = <<>>
    /\ op = "none"
    /\ arg = <<>>
    /\ err = "none"
    /\ ret = 0
    /\ valid = FALSE

\* EchonetData.create(input), the first call of an outbound exchange: the
\* caller keeps the returned object, or nothing when create throws.
Create(input) ==
    /\ op = "none"
    /\ \E randomTid \in {t \in TidProbes : RandomTidPossible(t)} :
        LET r == create(input, randomTid)
        IN  /\ data' = r.data
            /\ made' = IF r.err = "none" THEN "create" ELSE "none"
            /\ err' = r.err
            /\ op' = "create"
            /\ arg' = <<input>>
            /\ parsedFrom' = <<>>
            /\ buffer' = <<>>
            /\ whole' = <<>>
            /\ origin' = "none"
            /\ serialized' = <<>>
            /\ ret' = 0
            /\ valid' = FALSE

\* The transport hands over a buffer.
Receive(b) ==
    /\ buffer' = b
    /\ whole' = b
    /\ origin' = "wire"
    /\ serialized' = <<>>
    /\ data' = <<>>
    /\ made' = "none"
    /\ parsedFrom' = <<>>
    /\ op' = "receive"
    /\ arg' = <<>>
    /\ err' = "none"
    /\ ret' = 0
    /\ valid' = FALSE

\* The transport delivers only the first n bytes of the complete buffer.
Truncate(n) ==
    /\ buffer = whole
    /\ n < Len(buffer)
    /\ buffer' = SubSeq(buffer, 1, n)
    /\ op' = "truncate"
    /\ arg' = <<n>>
    /\ err' = "none"
    /\ data' = <<>>
    /\ made' = "none"
    /\ parsedFrom' = <<>>
    /\ ret' = 0
    /\ valid' = FALSE
    /\ UNCHANGED <<whole, origin, serialized>>

\* EchonetData.parse(buffer).
Parse ==
    /\ op \in {"receive", "truncate", "toBuffer"}
    /\ LET r == parse(buffer)
       IN  /\ data' = r.data
           /\ made' = IF r.err = "none" THEN "parse" ELSE "none"
           /\ parsedFrom' = IF r.err = "none" THEN buffer ELSE <<>>
           /\ err' = r.err
    /\ op' = "parse"
    /\ arg' = <<>>
    /\ ret' = 0
    /\ valid' = FALSE
    /\ UNCHANGED <<buffer, whole, origin, serialized>>

\* data.toBuffer(): the caller keeps the returned buffer, or nothing when
\* toBuffer throws.
ToBuffer ==
    /\ data # <<>>
    /\ LET r == toBuffer(data[1])
       IN  /\ buffer' = r.buffer
           /\ whole' = r.buffer
           /\ origin' = IF r.err = "none" THEN made ELSE "none"
           /\ serialized' = IF r.err = "none" THEN data ELSE <<>>
           /\ err' = r.err
    /\ op' = "toBuffer"
    /\ arg' = <<>>
    /\ ret' = 0
    /\ valid' = FALSE
    /\ UNCHANGED <<data, made, parsedFrom>>

\* data.getEdt(epc).
GetEdt(epc) ==
    /\ data # <<>>
    /\ LET r == getEdt(data[1], epc)
       IN  /\ err' = r.err
           /\ ret' = r.ret
    /\ op' = "getEdt"
    /\ arg' = <<epc>>
    /\ valid' = FALSE
    /\ UNCHANGED <<data, made, parsedFrom, buffer, whole, origin, serialized>>

\* data.getEdtAsBigInt(epc).
GetEdtAsBigInt(epc) ==
    /\ data # <<>>
    /\ LET r == getEdtAsBigInt(data[1], epc)
       IN  /\ err' = r.err
           /\ ret' = r.ret
    /\ op' = "getEdtAsBigInt"
    /\ arg' = <<epc>>
    /\ valid' = FALSE
    /\ UNCHANGED <<data, made, parsedFrom, buffer, whole, origin, serialized>>

\* data.isValidResponse(response).
IsValidResponse(response) ==
    /\ data # <<>>
    /\ valid' = isValidResponse(data[1], response)
    /\ op' = "isValidResponse"
    /\ arg' = <<response>>
    /\ err' = "none"
    /\ ret' = 0
    /\ UNCHANGED <<data, made, parsedFrom, buffer, whole, origin, serialized>>

\* The caller assigns data.properties[i].pdc = pdc on an object it built with
\* create (which never takes a PDC): readonly on the properties field does
\* not reach the EchonetProperty objects, whose fields are writable.
SetPdc(i, pdc) ==
    /\ data # <<>>
    /\ made = "create"
    /\ i \in DOMAIN data[1].properties
    /\ pdc # data[1].properties[i].pdc
    /\ data' = << [data[1] EXCEPT !.properties[i].pdc = pdc] >>
    /\ made' = "assigned"
    /\ parsedFrom' = <<>>
    /\ op' = "setPdc"
    /\ arg' = <<i>>
    /\ err' = "none"
    /\ ret' = 0
    /\ valid' = FALSE
    /\ UNCHANGED <<buffer, whole, origin, serialized>>

\* The codec as its factories and methods are called.
Next ==
    \/ \E input \in CreateInputs : Create(input)
    \/ \E b \in WireSamples : Receive(b)
    \/ \E n \in 0..Len(buffer) : Truncate(n)
    \/ Parse
    \/ ToBuffer
    \/ \E epc \in EpcSamples : GetEdt(epc)
    \/ \E epc \in EpcSamples : GetEdtAsBigInt(epc)
    \/ \E response \in ResponseSamples : IsValidResponse(response)

Spec == Init /\ [][Next]_vars

\* The serialization path with callers that also write to the property
\* objects before serializing.
NextAssign ==
    \/ \E input \in CreateInputs : Create(input)
    \/ \E i \in 1..MaxProps, pdc \in PdcSamples : SetPdc(i, pdc)
    \/ ToBuffer
    \/ Parse

SpecAssign == Init /\ [][NextAssign]_vars

\* ------------------------------------------------- vocabulary of the claims

\* The number of bytes of v written in base 256 without leading zeros.
RECURSIVE ByteLen(_)
ByteLen(v) == IF v = 0 THEN 0 ELSE 1 + ByteLen(v \div 256)

\* 0 <= v < 256^n.
Fits(v, n) == 0 <= v /\ ByteLen(v) <= n

\* The smallest n >= 1 with v < 256^n.
MinimalLength(v) == IF ByteLen(v) = 0 THEN 1 ELSE ByteLen(v)

\* The number of hexadecimal digits of v > 0.
RECURSIVE HexDigitCount(_)
HexDigitCount(v) == IF v = 0 THEN 0 ELSE 1 + HexDigitCount(v \div 16)

\* v without its k low-order hexadecimal digits.
RECURSIVE DropLowHexDigits(_, _)
DropLowHexDigits(v, k) == IF k = 0 THEN v ELSE DropLowHexDigits(v \div 16, k - 1)

\* The big-endian value of a byte sequence.
RECURSIVE BytesValue(_)
BytesValue(b) ==
    IF Len(b) = 0 THEN 0 ELSE BytesValue(SubSeq(b, 1, Len(b) - 1)) * 256 + b[Len(b)]

\* The n low-order bytes of v, most significant first.
RECURSIVE LowOrderBytes(_, _)
LowOrderBytes(v, n) ==
    IF n = 0 THEN <<>> ELSE Append(LowOrderBytes(v \div 256, n - 1), v % 256)

\* The length of the encoding of a property list: 2 + pdc bytes per record.
RECURSIVE RecordsLength(_)
RecordsLength(properties) ==
    IF Len(properties) = 0 THEN 0
    ELSE 2 + properties[1].pdc + RecordsLength(Tail(properties))

\* The value bytes of the i-th property record of a serialized frame b.
ValueBytes(b, properties, i) ==
    LET start == MinFrameLength + RecordsLength(SubSeq(properties, 1, i - 1)) + 2
    IN  SubSeq(b, start + 1, start + properties[i].pdc)

\* parse accepts b, and b ends exactly after its last property record.
Exact(b) == parse(b).err = "none" /\ parse(b).end = Len(b)

\* The errors parse raises itself.
FormatErrors ==
    {"Invalid header", "Frame is too short", "EPC or PDC is missing", "EDT is incomplete"}

\* Every field of d fits the width the wire format gives it.
WellFormed(d) ==
    /\ d.tid \in 0..65535
    /\ d.seoj \in 0..16777215
    /\ d.deoj \in 0..16777215
    /\ d.esv \in 0..255
    /\ Len(d.properties) <= 255
    /\ \A i \in DOMAIN d.properties :
          d.properties[i].epc \in 0..255 /\ d.properties[i].pdc \in 0..255

\* toBuffer can write the fixed fields of d, and so reaches its properties.
WritableFixedFields(d) ==
    d.tid \in 0..65535 /\ d.seoj \in 0..16777215 /\ d.deoj \in 0..16777215

\* What the claims call an invalid property value.
IsNumeric(edt) == edt.type \in {"number", "bigint"}
NonInteger(edt) == edt.den = 0 \/ edt.num % edt.den # 0
Negative(edt) == edt.den > 0 /\ edt.num < 0
Offending(edt) == IsNumeric(edt) /\ (NonInteger(edt) \/ Negative(edt))

\* The integer a valid property input stands for (0 when omitted).
InputValue(edt) == IF edt.type = "undefined" THEN 0 ELSE edt.num \div edt.den

\* The same integer handed in as the other numeric type.
OtherType(edt) ==
    [edt EXCEPT !.type = IF @ = "number" THEN "bigint" ELSE "number"]

\* ------------------------------------------------------------------ claims

\* C1 as stated: for every EchonetData that create returns, toBuffer succeeds
\* and parse of its result succeeds and returns an equal EchonetData.
C1_RoundTripAnyInput ==
    /\ (op = "toBuffer" /\ made = "create") => err = "none"
    /\ (op = "parse" /\ origin = "create" /\ buffer = whole)
          => (err = "none" /\ data = serialized)

\* C1, amended: for every EchonetData that create returns and whose fields
\* fit the widths of the wire format, toBuffer succeeds and parse of its
\* result succeeds and returns an equal EchonetData (same tid, seoj, deoj,
\* esv, and the same properties in the same order).
C1_RoundTrip ==
    /\ (op = "toBuffer" /\ made = "create" /\ WellFormed(data[1])) => err = "none"
    /\ (op = "parse" /\ origin = "create" /\ buffer = whole /\ WellFormed(serialized[1]))
          => (err = "none" /\ data = serialized)

C1_Witness ==
    /\ op = "parse" /\ origin = "create" /\ buffer = whole
    /\ WellFormed(serialized[1])
    /\ data = serialized
    /\ Len(data[1].properties) = 2
    /\ \E i \in DOMAIN data[1].properties : data[1].properties[i].pdc = 3

\* C2: for every buffer B that parse accepts and that ends exactly after its
\* last property record, toBuffer of the parsed EchonetData succeeds and
\* returns B byte for byte, zero-length properties included.
C2_SerializeInvertsParse ==
    (op = "toBuffer" /\ made = "parse" /\ Exact(parsedFrom))
        => (err = "none" /\ buffer = parsedFrom)

C2_Witness ==
    /\ op = "toBuffer" /\ made = "parse"
    /\ parsedFrom = <<16, 129, 0, 1, 5, 255, 1, 2, 136, 1, 98, 1, 231, 0>>
    /\ buffer = parsedFrom

\* C3 as stated: parse of every proper prefix of an exactly ending accepted
\* buffer fails with one of the codec's format errors and returns nothing.
C3_TruncationFormatError ==
    (op = "parse" /\ Exact(whole) /\ Len(buffer) < Len(whole))
        => (err \in FormatErrors /\ data = <<>>)

\* C4 as stated: create fails, returning nothing, exactly when some property
\* value is a negative or non-integer number, and a negative value raises the
\* same kind of error as a number and as a bigint.
C4_SameErrorKind ==
    op = "create" =>
        LET input == arg[1]
            bad == {i \in DOMAIN input.properties : Offending(input.properties[i].edt)}
        IN  /\ (err # "none") <=> (bad # {})
            /\ (err # "none") => data = <<>>
            /\ \A i \in bad :
                  ~NonInteger(input.properties[i].edt) =>
                      create([input EXCEPT !.properties =
                                  <<[input.properties[i] EXCEPT !.edt = OtherType(@)]>>], 0).err
                          = create([input EXCEPT !.properties = <<input.properties[i]>>], 0).err

\* C4, amended: create fails, returning nothing, exactly when some property
\* value is a negative or non-integer number; the error is a TypeError when
\* the first such value in list order is a number and a RangeError when it
\* is a bigint.
C4_Validation ==
    op = "create" =>
        LET input == arg[1]
            bad == {i \in DOMAIN input.properties : Offending(input.properties[i].edt)}
        IN  /\ (err # "none") <=> (bad # {})
            /\ (err # "none") => data = <<>>
            /\ (err # "none") =>
                  err = IF input.properties[Min(bad)].edt.type = "number"
                        THEN "TypeError" ELSE "RangeError"

C4_Witness ==
    /\ op = "create" /\ err = "RangeError" /\ data = <<>>
    /\ Len(arg[1].properties) = 2
    /\ arg[1].properties[1].edt.type = "undefined"

\* C5: every property of an EchonetData returned by create carries the value
\* handed in (0 when omitted) and, as its length, the smallest n >= 1 with
\* value < 256^n.
C5_MinimalLength ==
    (op = "create" /\ err = "none") =>
        \A i \in DOMAIN data[1].properties :
            LET v == InputValue(arg[1].properties[i].edt)
                p == data[1].properties[i]
            IN  /\ p.epc = arg[1].properties[i].epc
                /\ p.edt = v
                /\ p.pdc = MinimalLength(v)
                /\ p.pdc >= 1

C5_Witness ==
    /\ op = "create" /\ err = "none"
    /\ Len(data[1].properties) = 2
    /\ data[1].properties[1] = [epc |-> 231, pdc |-> 1, edt |-> 0]
    /\ data[1].properties[2] = [epc |-> 128, pdc |-> 2, edt |-> 256]

\* C6: isValidResponse returns true exactly when the response's seoj is the
\* request's deoj, its deoj the request's seoj, and the tids are equal; esv
\* and properties of either side do not matter, and changing one of the three
\* fields of a matching response makes it false.
C6_ResponseCorrelation ==
    op = "isValidResponse" =>
        LET d == data[1]
            r == arg[1]
        IN  /\ valid <=> (r.seoj = d.deoj /\ r.deoj = d.seoj /\ r.tid = d.tid)
            /\ \A e \in {98, 114}, ps \in {<<>>, d.properties, r.properties} :
                  /\ isValidResponse(d, [r EXCEPT !.esv = e, !.properties = ps]) = valid
                  /\ isValidResponse([d EXCEPT !.esv = e, !.properties = ps], r) = valid
            /\ valid =>
                  /\ ~isValidResponse(d, [r EXCEPT !.tid = (@ + 1) % 65536])
                  /\ ~isValidResponse(d, [r EXCEPT !.seoj = (@ + 1) % 16777216])
                  /\ ~isValidResponse(d, [r EXCEPT !.deoj = (@ + 1) % 16777216])

C6_Witness ==
    /\ op = "isValidResponse" /\ valid
    /\ arg[1].esv # data[1].esv
    /\ arg[1].properties # data[1].properties

\* C7: getEdt and getEdtAsBigInt select the first property in stored order
\* with the code asked for; both fail with "Property not found" when there is
\* none; getEdt fails with "Cannot convert to number type" exactly when the
\* selected property's pdc exceeds 6; otherwise each returns the selected
\* property's edt; neither changes the EchonetData.
C7_Accessors ==
    [][ (op' \in {"getEdt", "getEdtAsBigInt"}) =>
            /\ data' = data
            /\ LET d == data[1]
                   hits == {i \in DOMAIN d.properties : d.properties[i].epc = arg'[1]}
               IN  IF hits = {}
                   THEN err' = "Property not found"
                   ELSE LET p == d.properties[Min(hits)]
                        IN  IF op' = "getEdt" /\ p.pdc > 6
                            THEN err' = "Cannot convert to number type"
                            ELSE err' = "none" /\ ret' = p.edt ]_vars

C7_Witness ==
    /\ op = "getEdt" /\ err = "none" /\ arg = <<231>>
    /\ Len(data[1].properties) = 2
    /\ data[1].properties[1].epc = 231 /\ data[1].properties[2].epc = 231
    /\ data[1].properties[1].edt # data[1].properties[2].edt
    /\ ret = data[1].properties[1].edt

\* C8: a tid handed to create is carried as it is; a tid left out is replaced
\* by an integer of [0, 0xFFFF], and every value of that range, 0xFFFF
\* included, can be the one generated.
C8_TidWholeRange ==
    /\ (op = "create" /\ err = "none") =>
          IF arg[1].tid = <<>> THEN data[1].tid \in 0..65535
          ELSE data[1].tid = arg[1].tid[1]
    /\ op = "none" =>
          \A t \in TidProbes :
              ENABLED (\E input \in CreateInputs :
                          input.tid = <<>> /\ Create(input) /\ data' # <<>> /\ data'[1].tid = t)

\* C9 as stated: toBuffer, reaching a property with pdc >= 1 and
\* edt >= 256^pdc, does not fail, emits exactly pdc value bytes for it, and
\* these are the pdc low-order bytes of edt.
C9_LowOrderBytesKept ==
    (op = "toBuffer" /\ WritableFixedFields(data[1])) =>
        \A i \in DOMAIN data[1].properties :
            LET p == data[1].properties[i]
            IN  (p.pdc >= 1 /\ ~Fits(p.edt, p.pdc)) =>
                    /\ err = "none"
                    /\ Len(buffer) = MinFrameLength + RecordsLength(data[1].properties)
                    /\ ValueBytes(buffer, data[1].properties, i) = LowOrderBytes(p.edt, p.pdc)

\* C9, amended: toBuffer, reaching a property with pdc >= 1 and
\* edt >= 256^pdc, does not fail, emits exactly pdc value bytes for it, and
\* these are the first 2 * pdc hexadecimal digits of edt: the low-order
\* digits are the ones dropped.
C9_LeadingDigitsKept ==
    (op = "toBuffer" /\ WritableFixedFields(data[1])) =>
        \A i \in DOMAIN data[1].properties :
            LET p == data[1].properties[i]
                bytes == ValueBytes(buffer, data[1].properties, i)
            IN  (p.pdc >= 1 /\ ~Fits(p.edt, p.pdc)) =>
                    /\ err = "none"
                    /\ Len(buffer) = MinFrameLength + RecordsLength(data[1].properties)
                    /\ Len(bytes) = p.pdc
                    /\ BytesValue(bytes)
                          = DropLowHexDigits(p.edt, HexDigitCount(p.edt) - 2 * p.pdc)

C9_Witness ==
    /\ op = "toBuffer" /\ err = "none" /\ made = "assigned"
    /\ Len(data[1].properties) = 2
    /\ data[1].properties[2] = [epc |-> 128, pdc |-> 1, edt |-> 74565]
    /\ ValueBytes(buffer, data[1].properties, 2) = <<18>>

\* C10: in every EchonetData returned by create or parse each property has
\* 0 <= edt < 256^pdc, and after parse 0 <= pdc <= 255 with edt = 0 when
\* pdc = 0; so toBuffer drops no part of a value, and getEdt returns only
\* values below 2^48.
C10_ValueFitsLength ==
    /\ made \in {"create", "parse"} =>
          \A i \in DOMAIN data[1].properties :
              LET p == data[1].properties[i]
              IN  /\ Fits(p.edt, p.pdc)
                  /\ made = "parse" => (p.pdc \in 0..255 /\ (p.pdc = 0 => p.edt = 0))
    /\ (op = "toBuffer" /\ err = "none") =>
          \A i \in DOMAIN data[1].properties :
              BytesValue(ValueBytes(buffer, data[1].properties, i)) = data[1].properties[i].edt
    /\ (op = "getEdt" /\ err = "none") => (0 <= ret /\ ByteLen(ret) <= 6)

C10_Witness ==
    /\ op = "getEdt" /\ err = "none" /\ made = "create"
    /\ ret = 74565
    /\ \E i \in DOMAIN data[1].properties :
          data[1].properties[i] = [epc |-> 128, pdc |-> 3, edt |-> 74565]

====
